---- MODULE Spec2Model ----
(***************************************************************************)
(* A model of the jewel game catalog: the Django repository               *)
(* (games/repositories.py), the Game / GameOnPlatform models and their     *)
(* managers (games/models.py), the save-triggered Steam reconciliation     *)
(* (steam/signals_processors.py, steam/utils.py), the match_steam_games    *)
(* command, the CSV row adapter (csv_importer/adapters.py) and the CSV     *)
(* import run (csv_importer/importers.py).                                 *)
(*                                                                         *)
(* Python values are modelled by strings: None is the string "None", the   *)
(* native booleans are "True" and "False", a raw text cell that is parsed  *)
(* character by character is a sequence of one-character strings.          *)
(* A raised exception is the name of its class.                            *)
(***************************************************************************)
EXTENDS Integers, Sequences, FiniteSets, TLC

VARIABLES
    db,             \* the database: the tables Game, GameOnPlatform, Platform, Vendor, Genre
    catalog,        \* the SteamGame table, in primary-key order
    last,           \* what the last repository / model call returned or raised
    data,           \* CSVGamesImporter.data: the rows of the dataset
    adapter_class,  \* CSVGamesImporter.adapter_class
    pc,             \* where CSVGamesImporter.process stands
    row,            \* the index of the row the loop of process is at
    calls,          \* the calls of repository.create made by process, in order
    written,        \* the lines process wrote with tqdm.write, in order
    cell            \* the attribute read of the row adapter under study

vars == <<db, catalog, last, data, adapter_class, pc, row, calls, written, cell>>

(***************************************************************************)
(* Bounds of the model.                                                    *)
(***************************************************************************)
MaxGames == 2
MaxLinks == 2
MaxRows  == 3
MaxNotes == 2

(***************************************************************************)
(* Python values.                                                          *)
(***************************************************************************)
None    == "None"
PyTrue  == "True"
PyFalse == "False"

\* bool(v) of a value that is None, a native boolean or a str
Truthy(v) == v \notin {None, PyFalse, ""}

\* str.lower() on the names the model uses
Lower(s) ==
    CASE s = "Doom"  -> "doom"
      [] s = "DOOM"  -> "doom"
      [] s = "Quake" -> "quake"
      [] s = "Steam" -> "steam"
      [] s = "STEAM" -> "steam"
      [] s = "PC"    -> "pc"
      [] s = "Doom!" -> "doom!"
      [] s = "Hush"  -> "hush"
      [] s = "Eternal Doom" -> "eternal doom"
      [] s = "Doom Eternal" -> "doom eternal"
      [] OTHER       -> s

\* str.strip() on the names the model uses
Strip(s) ==
    CASE s = " "      -> ""
      [] s = " PC"    -> "PC"
      [] OTHER        -> s

Min(S) == CHOOSE x \in S : \A y \in S : x <= y

(***************************************************************************)
(* The database.  db.Game and db.GameOnPlatform are sets of rows; the      *)
(* primary keys come from the counters nextGame (uuid4: always fresh) and  *)
(* nextGop (auto-increment).  Platform, Vendor and Genre rows are          *)
(* identified by their name, which get_or_create keeps unique.             *)
(***************************************************************************)
EmptyDB ==
    [Game |-> {}, GameOnPlatform |-> {}, Platform |-> {}, Vendor |-> {},
     Genre |-> {}, nextGame |-> 1, nextGop |-> 1]

\* Game(name=...) with the defaults of the model fields
NewGame(id, name) ==
    [id |-> id, name |-> name, played |-> PyFalse, review |-> None,
     notes |-> <<"None">>, genres |-> {}]

\* GameOnPlatform(...) with the defaults of the model fields
NewGameOnPlatform(id, game, platform, added, price, identifier) ==
    [id |-> id, game |-> game, platform |-> platform, added |-> added,
     price |-> price, identifier |-> identifier, vendor |-> None,
     deleted |-> FALSE, deleted_at |-> None]

GameById(d, id) == CHOOSE g \in d.Game : g.id = id
GopById(d, id)  == CHOOSE l \in d.GameOnPlatform : l.id = id

\* GameManager.all_with_orphaned: the unfiltered table
all_with_orphaned(d) == d.Game

\* GameManager.get_queryset: only games with a non-deleted platform link
get_queryset(d) ==
    {g \in d.Game : \E l \in d.GameOnPlatform : l.game = g.id /\ ~l.deleted}

\* a manager that takes only the games without any link for orphaned
without_links(d) ==
    {g \in d.Game : ~(\E l \in d.GameOnPlatform : l.game = g.id)}

\* GameManager.orphaned_only / GameQuerySet.orphaned
orphaned_only(d) ==
    {g \in d.Game : ~(\E l \in d.GameOnPlatform : l.game = g.id /\ ~l.deleted)}

\* Model.save(update_fields=...) of a GameOnPlatform row: the row replaces the stored one
PutGop(d, l) ==
    [d EXCEPT !.GameOnPlatform = {x \in @ : x.id # l.id} \cup {l}]

PutGame(d, g) ==
    [d EXCEPT !.Game = {x \in @ : x.id # g.id} \cup {g}]

(***************************************************************************)
(* The Steam catalog and the reconciliation of a platform link.            *)
(***************************************************************************)
\* a lookup that tells upper case from lower case
case_sensitive_matches(name) ==
    {k \in DOMAIN catalog : catalog[k].name = name}

\* SteamGame.objects.filter(name__iexact=name), as primary keys
iexact_matches(name) ==
    {k \in DOMAIN catalog : Lower(catalog[k].name) = Lower(name)}

\* a guard that knows one spelling of the platform name
receiver_skips_other_spellings(inst) ==
    inst.platform # "Steam" \/ Truthy(inst.identifier)

\* the guard of the receiver: not a Steam link, or an identifier is set
receiver_skips(inst) ==
    Lower(inst.platform) # "steam" \/ Truthy(inst.identifier)

\* add_steam_game_id_for_new_game, the receiver of platform_added_for_game.
\* Its own save(update_fields=["identifier"]) sends the signal again; the
\* nested receiver then finds the identifier set and returns.
RECURSIVE add_steam_game_id_for_new_game(_, _)
add_steam_game_id_for_new_game(d, lid) ==
    LET inst == GopById(d, lid)
        steam_games == iexact_matches(GameById(d, inst.game).name)
    IN  IF receiver_skips(inst) THEN d
        ELSE IF steam_games # {}
             THEN add_steam_game_id_for_new_game(
                      PutGop(d, [inst EXCEPT !.identifier = catalog[Min(steam_games)].appid]),
                      lid)
             ELSE d

\* GameOnPlatform.save: store the row, then send platform_added_for_game
GameOnPlatform_save(d, l) == add_steam_game_id_for_new_game(PutGop(d, l), l.id)

\* GameOnPlatform.soft_delete; the time of deletion is abstracted to "now"
soft_delete(d, lid) ==
    GameOnPlatform_save(d, [GopById(d, lid) EXCEPT !.deleted = TRUE, !.deleted_at = "now"])

\* a restore that leaves the time of deletion in place
restore_keeps_timestamp(d, lid) ==
    GameOnPlatform_save(d, [GopById(d, lid) EXCEPT !.deleted = FALSE])

\* GameOnPlatform.restore
restore(d, lid) ==
    GameOnPlatform_save(d, [GopById(d, lid) EXCEPT !.deleted = FALSE, !.deleted_at = None])

\* a set_steam_game_appid that assigns whatever identifier the link has
appid_guard_dropped(gop) == FALSE

\* the guard of set_steam_game_appid
appid_already_set(gop) == Truthy(gop.identifier)

\* steam.utils.set_steam_game_appid: [db, ret]
set_steam_game_appid(d, lid) ==
    LET gop == GopById(d, lid)
        steam_games == iexact_matches(GameById(d, gop.game).name)
    IN  IF appid_already_set(gop) THEN [db |-> d, ret |-> None]
        ELSE IF steam_games # {}
             THEN [db  |-> GameOnPlatform_save(d, [gop EXCEPT !.identifier = catalog[Min(steam_games)].appid]),
                   ret |-> PyTrue]
             ELSE [db |-> d, ret |-> PyFalse]

(***************************************************************************)
(* DjangoGameRepository.  A draft (GameInterface) is a record              *)
(*   [id, name, played, review, notes, genres, platforms, raises]          *)
(* where id is 0 when the draft has none (a stored game's id is positive), *)
(* raises names the exception that reading one of its attributes     *)
(* raises (None when all reads succeed); a platform entry                  *)
(* (GameOnPlatformInterface) is [platform, added, price, source,           *)
(* identifier].  Notes are sequences of paragraphs: appending with a blank *)
(* line between is concatenation; NoNotes is the value None.               *)
(***************************************************************************)
NoNotes == <<"None">>

NotesTruthy(n) == n # NoNotes /\ n # <<>>

\* games the lookup of create_game_model tells apart from the draft's name
same_name(stored, wanted) == stored = wanted

\* the loop of create_game_model over the scalar fields of the draft
merge_field(value, field_value) ==
    IF value # None /\ value # field_value THEN value ELSE field_value

\* a loop that treats notes as any other field
notes_overwritten(value, field_value) ==
    IF value # NoNotes /\ value # field_value THEN value ELSE field_value

\* the same loop on the field notes
merge_notes(value, field_value) ==
    IF value # NoNotes /\ value # field_value
    THEN (IF NotesTruthy(field_value) THEN value \o field_value ELSE value)
    ELSE field_value

merge_fields(game_model, game) ==
    [game_model EXCEPT
        !.name   = merge_field(game.name, @),
        !.played = merge_field(game.played, @),
        !.review = merge_field(game.review, @),
        !.notes  = merge_notes(game.notes, @)]

\* the games Game.objects.get_or_create(name=...) of create_game_model can see
lookup_queryset(d) == get_queryset(d)

\* create_game_model: [db, raised, model, created]
create_game_model(d, game) ==
    IF game.id # 0
    THEN \* Game.objects.get(pk=game.id); "id" stays in data, and
         \* save(update_fields=[..., "id"]) rejects the primary key
         IF \E g \in lookup_queryset(d) : g.id = game.id
         THEN [db |-> d, raised |-> "ValueError", model |-> game.id, created |-> FALSE]
         ELSE [db |-> d, raised |-> "DoesNotExist", model |-> 0, created |-> FALSE]
    ELSE LET found == {g \in lookup_queryset(d) : same_name(g.name, game.name)}
         IN  IF Cardinality(found) > 1
             THEN [db |-> d, raised |-> "MultipleObjectsReturned", model |-> 0,
                   created |-> FALSE]
             ELSE IF found # {}
             THEN LET game_model == CHOOSE g \in found : TRUE
                  IN  [db |-> PutGame(d, merge_fields(game_model, game)),
                       raised |-> None, model |-> game_model.id, created |-> FALSE]
             ELSE LET game_model == NewGame(d.nextGame, game.name)
                  IN  [db |-> PutGame([d EXCEPT !.nextGame = @ + 1],
                                      merge_fields(game_model, game)),
                       raised |-> None, model |-> game_model.id, created |-> TRUE]

\* create_genres: every truthy genre is got or created and added to the game
create_genres(d, gid, genres) ==
    LET names == {genres[k] : k \in {j \in DOMAIN genres : Truthy(genres[j])}}
        game_model == GameById(d, gid)
    IN  PutGame([d EXCEPT !.Genre = @ \cup names],
                [game_model EXCEPT !.genres = @ \cup names])

\* the key of GameOnPlatform.objects.get_or_create in create_game_on_platforms
same_link(l, gid, platform_game) ==
    /\ l.platform = platform_game.platform
    /\ l.game = gid
    /\ l.added = platform_game.added
    /\ l.price = platform_game.price
    /\ l.identifier = platform_game.identifier

\* create_source: the vendor is got or created, then the read of
\* game_on_platform_model.source fails: GameOnPlatform has the field vendor
create_source(d, lid, source) ==
    [db |-> [d EXCEPT !.Vendor = @ \cup {source}], raised |-> "AttributeError"]

\* create_game_on_platforms from entry k on: [db, raised]
RECURSIVE create_game_on_platforms(_, _, _, _)
create_game_on_platforms(d, gid, platforms, k) ==
    IF k > Len(platforms) THEN [db |-> d, raised |-> None]
    ELSE
    LET platform_game == platforms[k]
        d1 == [d EXCEPT !.Platform = @ \cup {platform_game.platform}]
        found == {l \in d1.GameOnPlatform : same_link(l, gid, platform_game)}
    IN  IF Cardinality(found) > 1
        THEN [db |-> d1, raised |-> "MultipleObjectsReturned"]
        ELSE
        LET gop == IF found # {} THEN CHOOSE l \in found : TRUE
                   ELSE NewGameOnPlatform(d1.nextGop, gid, platform_game.platform,
                            platform_game.added, platform_game.price,
                            platform_game.identifier)
            d2 == IF found # {} THEN d1
                  ELSE GameOnPlatform_save([d1 EXCEPT !.nextGop = @ + 1], gop)
        IN  IF Truthy(platform_game.source)
            THEN create_source(d2, gop.id, platform_game.source)
            ELSE create_game_on_platforms(d2, gid, platforms, k + 1)

\* DjangoGameRepository.create: [db, raised, model, created]
create(d, game) ==
    IF game.raises # None
    THEN \* game_to_dict reads every attribute of the draft before any write
         [db |-> d, raised |-> game.raises, model |-> 0, created |-> FALSE]
    ELSE
    LET m == create_game_model(d, game)
    IN  IF m.raised # None THEN m
        ELSE
        LET d1 == IF game.genres # <<>> THEN create_genres(m.db, m.model, game.genres)
                  ELSE m.db
            p  == IF game.platforms # <<>>
                  THEN create_game_on_platforms(d1, m.model, game.platforms, 1)
                  ELSE [db |-> d1, raised |-> None]
        IN  IF p.raised # None
            THEN [db |-> p.db, raised |-> p.raised, model |-> 0, created |-> FALSE]
            ELSE [db |-> p.db, raised |-> None, model |-> m.model, created |-> m.created]

\* DjangoGameRepository.remove: [db, raised]; the links go with the game (CASCADE)
remove(d, identifier) ==
    IF \E g \in lookup_queryset(d) : g.id = identifier
    THEN [db |-> [d EXCEPT !.Game = {g \in @ : g.id # identifier},
                           !.GameOnPlatform = {l \in @ : l.game # identifier}],
          raised |-> None]
    ELSE [db |-> d, raised |-> "ValueError"]

\* Command.handle of match_steam_games: [db, raised].  Platform "Steam" must
\* exist; the first link without identifier then reads game.title, an
\* attribute the Game model does not have.
match_steam_games(d) ==
    IF "Steam" \notin d.Platform THEN [db |-> d, raised |-> "DoesNotExist"]
    ELSE LET game_copies == {l \in d.GameOnPlatform :
                                l.platform = "Steam" /\ l.identifier = None}
         IN  IF game_copies = {} THEN [db |-> d, raised |-> None]
             ELSE [db |-> d, raised |-> "AttributeError"]

(***************************************************************************)
(* The row adapters (csv_importer/adapters.py).  A raw cell of a loaded    *)
(* row is None, a native boolean (load_data turns the cells "x" and "X"    *)
(* into True) or a text; a text that is parsed is a sequence of            *)
(* one-character strings.  Reading an attribute gives a typed value or     *)
(* raises: a result is [raised, tag, b, i, s] with raised = None and the   *)
(* value under tag ("none" is the value None), or with raised naming the   *)
(* exception.                                                              *)
(***************************************************************************)
MaxLen == 3

Chars  == {"0", "1", "2", "-", "+", " ", "a"}
Digits == {"0", "1", "2"}

NoneCell    == [kind |-> "none", b |-> FALSE, s |-> <<>>]
BoolCell(b) == [kind |-> "bool", b |-> b, s |-> <<>>]
StrCell(s)  == [kind |-> "str", b |-> FALSE, s |-> s]

\* bool(value) of a raw cell
CellTruthy(raw) ==
    CASE raw.kind = "none" -> FALSE
      [] raw.kind = "bool" -> raw.b
      [] OTHER             -> raw.s # <<>>

Val(tag, b, i, s) == [raised |-> None, tag |-> tag, b |-> b, i |-> i, s |-> s]
Absent       == Val("none", FALSE, 0, <<>>)
BoolVal(b)   == Val("bool", b, 0, <<>>)
IntVal(i)    == Val("int", FALSE, i, <<>>)
Raise(exc)   == [raised |-> exc, tag |-> "none", b |-> FALSE, i |-> 0, s |-> <<>>]

\* the raw cell itself as the value read (data.get(key))
Same(raw) ==
    CASE raw.kind = "none" -> Absent
      [] raw.kind = "bool" -> BoolVal(raw.b)
      [] OTHER             -> Val("str", FALSE, 0, raw.s)

DigitValue(c) == CASE c = "0" -> 0 [] c = "1" -> 1 [] OTHER -> 2

RECURSIVE lstrip(_)
lstrip(s) == IF s # <<>> /\ Head(s) = " " THEN lstrip(Tail(s)) ELSE s

RECURSIVE rstrip(_)
rstrip(s) == IF s # <<>> /\ s[Len(s)] = " " THEN rstrip(SubSeq(s, 1, Len(s) - 1)) ELSE s

\* str.strip() of a text given by its characters
strip(s) == rstrip(lstrip(s))

AllDigits(s) == s # <<>> /\ \A k \in DOMAIN s : s[k] \in Digits

RECURSIVE DecimalValue(_)
DecimalValue(s) ==
    IF s = <<>> THEN 0 ELSE 10 * DecimalValue(SubSeq(s, 1, Len(s) - 1)) + DigitValue(s[Len(s)])

\* int(value): a boolean is 1 or 0, None is a TypeError, a text is stripped
\* and must be an optional sign, - or +, and decimal digits
py_int(raw) ==
    CASE raw.kind = "none" -> Raise("TypeError")
      [] raw.kind = "bool" -> IntVal(IF raw.b THEN 1 ELSE 0)
      [] OTHER ->
           LET t      == strip(raw.s)
               signed == t # <<>> /\ Head(t) \in {"-", "+"}
               digits == IF signed THEN Tail(t) ELSE t
           IN  IF AllDigits(digits)
               THEN IntVal(IF Head(t) = "-" THEN 0 - DecimalValue(digits)
                           ELSE DecimalValue(digits))
               ELSE Raise("ValueError")

\* int(value[:2]), int(value[-1]), int(value[0]) of a truthy value:
\* subscripting a boolean is a TypeError
int_of_slice(raw, slice) ==
    IF raw.kind # "str" THEN Raise("TypeError")
    ELSE CASE slice = "first_two" -> py_int(StrCell(SubSeq(raw.s, 1, IF Len(raw.s) < 2 THEN Len(raw.s) ELSE 2)))
           [] slice = "last"      -> py_int(StrCell(<<raw.s[Len(raw.s)]>>))
           [] OTHER               -> py_int(StrCell(<<raw.s[1]>>))

\* a rule that tries the first two characters and then the first one only
first_two_then_first(raw) ==
    IF ~CellTruthy(raw) THEN Absent
    ELSE LET first_two == int_of_slice(raw, "first_two")
             first     == int_of_slice(raw, "first")
         IN  IF first_two.raised = None THEN first_two
             ELSE IF first.raised = None THEN first
             ELSE Absent

\* CSVGameAdapter._convert_to_int: play_priority, max_players, review
convert_to_int(raw) ==
    IF ~CellTruthy(raw) THEN Absent
    ELSE LET first_two == int_of_slice(raw, "first_two")
             last_char == int_of_slice(raw, "last")
             first     == int_of_slice(raw, "first")
         IN  IF first_two.raised = None THEN first_two
             ELSE IF last_char.raised = None THEN last_char
             ELSE IF first.raised = None THEN first
             ELSE Absent

\* CSVGameAdapter.played: bool(int(value)) with no except clause
played(raw) ==
    IF raw.kind = "none" THEN Absent
    ELSE LET n == py_int(raw)
         IN  IF n.raised = None THEN BoolVal(n.i # 0) ELSE n

\* a rule that answers False where the value is no integer
garbage_is_false(raw) ==
    IF raw.kind = "none" THEN Absent
    ELSE LET n == py_int(raw)
         IN  IF n.raised = None THEN BoolVal(n.i # 0) ELSE BoolVal(FALSE)

\* CSVGameAdapter.controller_support: the same, ValueError and TypeError caught
controller_support(raw) ==
    IF raw.kind = "none" THEN Absent
    ELSE LET n == py_int(raw)
         IN  IF n.raised = None THEN BoolVal(n.i # 0) ELSE Absent

\* CSVGameAdapter.party_fit
party_fit(raw) == BoolVal(CellTruthy(raw))

\* CSVGameAdapter.genres: [genre] if genre else []; i is the length of the list
genres(raw) ==
    IF CellTruthy(raw) THEN Val("list", raw.b, 1, raw.s) ELSE Val("list", FALSE, 0, <<>>)

\* CSVGameAdapter.notes
notes(raw) == Same(raw)

\* the texts between the hyphens of a text
RECURSIVE SplitHyphen(_, _)
SplitHyphen(s, part) ==
    IF s = <<>> THEN <<part>>
    ELSE IF Head(s) = "-" THEN <<part>> \o SplitHyphen(Tail(s), <<>>)
    ELSE SplitHyphen(Tail(s), Append(part, Head(s)))

\* datetime.strptime(text, "%Y-%m-%d") accepts the text: four digits of a
\* year from 1 on, a month 1..12 and a day of one or two digits (the day
\* also as a space and a digit); every day the digits of Chars can spell
\* exists in every month
date_accepted(s) ==
    LET parts == SplitHyphen(s, <<>>)
        y == parts[1]
        m == parts[2]
        d == IF Len(parts[3]) = 2 /\ parts[3][1] = " " THEN Tail(parts[3]) ELSE parts[3]
    IN  /\ Len(parts) = 3
        /\ AllDigits(y) /\ Len(y) = 4 /\ DecimalValue(y) >= 1
        /\ AllDigits(m) /\ Len(m) <= 2 /\ DecimalValue(m) \in 1..12
        /\ AllDigits(d) /\ Len(d) <= 2 /\ DecimalValue(d) \in 1..28

\* CSVGameOnPlatformAdapter.added: ValueError and TypeError give None
added(raw) ==
    IF raw.kind = "str" /\ date_accepted(raw.s) THEN Val("date", FALSE, 0, raw.s)
    ELSE Absent

\* CSVGameOnPlatformAdapter.price on None or a text: Price.fromstring finds
\* an amount in a text that holds a digit
price(raw) ==
    IF raw.kind = "str" /\ \E k \in DOMAIN raw.s : raw.s[k] \in Digits
    THEN Val("decimal", FALSE, 0, raw.s)
    ELSE Absent

\* CSVGameOnPlatformAdapter.source
source(raw) == Same(raw)

\* CSVGameOnPlatformAdapter.platform: self.name.strip(); None and the
\* booleans have no strip
platform(raw) ==
    IF raw.kind = "str" THEN Val("str", FALSE, 0, strip(raw.s)) ELSE Raise("AttributeError")

Attributes ==
    {"play_priority", "max_players", "review", "played", "controller_support",
     "party_fit", "genres", "notes", "added", "price", "source", "platform"}

\* reading the attribute attr of an adapter whose cell for it is raw
read(attr, raw) ==
    CASE attr \in {"play_priority", "max_players", "review"} -> convert_to_int(raw)
      [] attr = "played"             -> played(raw)
      [] attr = "controller_support" -> controller_support(raw)
      [] attr = "party_fit"          -> party_fit(raw)
      [] attr = "genres"             -> genres(raw)
      [] attr = "notes"              -> notes(raw)
      [] attr = "added"              -> added(raw)
      [] attr = "price"              -> price(raw)
      [] attr = "source"             -> source(raw)
      [] OTHER                       -> platform(raw)

Texts == UNION {[1..n -> Chars] : n \in 0..MaxLen}

DateText == <<"2", "0", "2", "1", "-", "1", "2", "-", "0", "1">>

\* ranges whose bounds have two digits: "2-10" and "10-12"
RangeTexts == {<<"2", "-", "1", "0">>, <<"1", "0", "-", "1", "2">>}

RawCells ==
    {NoneCell, BoolCell(TRUE), BoolCell(FALSE), StrCell(DateText)}
        \cup {StrCell(s) : s \in Texts \cup RangeTexts}

NoRead == [attr |-> "none", raw |-> NoneCell, result |-> Absent]

(***************************************************************************)
(* The inputs of the repository specification.                             *)
(***************************************************************************)
Entry(platform_name, added_on, amount, vendor, identifier) ==
    [platform |-> platform_name, added |-> added_on, price |-> amount,
     source |-> vendor, identifier |-> identifier]

SteamEntry      == Entry("Steam", None, None, None, None)
PCEntry         == Entry("PC", "2022-05-02", "14.99", None, "X1")
SourcedEntry    == Entry("PC", None, None, "GOG", None)
IdentifiedEntry == Entry("steam", None, None, None, "77")

Draft(id, name, review, notes_text, genre_list, platform_list) ==
    [id |-> id, name |-> name, played |-> None, review |-> review, notes |-> notes_text,
     genres |-> genre_list, platforms |-> platform_list, raises |-> None]

Drafts ==
    {Draft(0, "Doom", None, NoNotes, <<>>, <<>>),
     Draft(0, "Doom", None, NoNotes, <<>>, <<SteamEntry>>),
     Draft(0, "doom", None, NoNotes, <<>>, <<SteamEntry>>),
     Draft(0, "Doom", None, NoNotes, <<>>, <<PCEntry, SteamEntry>>),
     Draft(0, "Doom", None, NoNotes, <<>>, <<IdentifiedEntry>>),
     Draft(0, "Doom", None, NoNotes, <<>>, <<SourcedEntry>>),
     Draft(0, "Doom", "7", <<"n1">>, <<"RPG">>, <<SteamEntry>>),
     Draft(0, "Doom", "8", <<"n2">>, <<>>, <<SteamEntry>>),
     Draft(1, "Doom", None, NoNotes, <<>>, <<>>)}

\* the contents of the SteamGame table the specifications start from
Catalogs ==
    {<<>>,
     <<[appid |-> "10", name |-> "DOOM"]>>,
     <<[appid |-> "10", name |-> "DOOM"], [appid |-> "20", name |-> "Doom"]>>}

\* the value of last before any call: no draft, no result
NoDraft == Draft(0, "", None, NoNotes, <<>>, <<>>)

NoCall ==
    [op |-> "none", draft |-> NoDraft, model |-> 0, created |-> FALSE,
     raised |-> None, origin |-> None]

ImporterIdle ==
    /\ data = <<>>
    /\ adapter_class = "CSVGameAdapter"
    /\ pc = "idle"
    /\ row = 0
    /\ calls = <<>>
    /\ written = <<>>

Init ==
    /\ db = EmptyDB
    /\ catalog \in Catalogs
    /\ last = NoCall
    /\ ImporterIdle
    /\ cell = NoRead

(***************************************************************************)
(* The operations on the database (specification Spec).  TLC names the     *)
(* action of every step of a trace; last keeps how the command ended, and  *)
(* what create returns is recorded by the specification SpecCreate below.  *)
(***************************************************************************)
WithinBounds(d) ==
    /\ d.nextGame - 1 <= MaxGames
    /\ d.nextGop - 1 <= MaxLinks
    /\ \A g \in d.Game : Len(g.notes) <= MaxNotes

\* DjangoGameRepository.create(game)
Create(game) ==
    LET r == create(db, game)
    IN  /\ WithinBounds(r.db)
        /\ db' = r.db
        /\ last' = NoCall
        /\ UNCHANGED <<catalog, data, adapter_class, pc, row, calls, written, cell>>

\* DjangoGameRepository.remove(identifier)
Remove(identifier) ==
    /\ db' = remove(db, identifier).db
    /\ last' = NoCall
    /\ UNCHANGED <<catalog, data, adapter_class, pc, row, calls, written, cell>>

\* GameOnPlatform.soft_delete() on a stored link
SoftDelete(lid) ==
    /\ \E l \in db.GameOnPlatform : l.id = lid
    /\ db' = soft_delete(db, lid)
    /\ last' = NoCall
    /\ UNCHANGED <<catalog, data, adapter_class, pc, row, calls, written, cell>>

\* GameOnPlatform.restore() on a stored link
Restore(lid) ==
    /\ \E l \in db.GameOnPlatform : l.id = lid
    /\ db' = restore(db, lid)
    /\ last' = NoCall
    /\ UNCHANGED <<catalog, data, adapter_class, pc, row, calls, written, cell>>

\* steam.utils.set_steam_game_appid(gop) on a stored link
SetSteamGameAppid(lid) ==
    /\ \E l \in db.GameOnPlatform : l.id = lid
    /\ db' = set_steam_game_appid(db, lid).db
    /\ last' = NoCall
    /\ UNCHANGED <<catalog, data, adapter_class, pc, row, calls, written, cell>>

\* manage.py match_steam_games
MatchSteamGames ==
    LET r == match_steam_games(db)
    IN  /\ db' = r.db
        /\ last' = [NoCall EXCEPT !.op = "match_steam_games", !.raised = r.raised,
                                  !.origin = IF r.raised = None THEN None ELSE "command"]
        /\ UNCHANGED <<catalog, data, adapter_class, pc, row, calls, written, cell>>

Next ==
    \/ \E game \in Drafts : Create(game)
    \/ \E identifier \in 1..MaxGames : Remove(identifier)
    \/ \E lid \in 1..MaxLinks : SoftDelete(lid)
    \/ \E lid \in 1..MaxLinks : Restore(lid)
    \/ \E lid \in 1..MaxLinks : SetSteamGameAppid(lid)
    \/ MatchSteamGames

Spec == Init /\ [][Next]_vars

(***************************************************************************)
(* Sequences of DjangoGameRepository.create calls, each with the tuple     *)
(* (game_model, created) it returned or the exception it raised           *)
(* (specification SpecCreate).                                             *)
(***************************************************************************)
CreateCall(game) ==
    LET r == create(db, game)
    IN  /\ WithinBounds(r.db)
        /\ db' = r.db
        /\ last' = [op |-> "create", draft |-> game, model |-> r.model,
                    created |-> r.created, raised |-> r.raised,
                    origin |-> IF r.raised = None THEN None ELSE "repository"]
        /\ UNCHANGED <<catalog, data, adapter_class, pc, row, calls, written, cell>>

NextCreate == \E game \in Drafts : CreateCall(game)

SpecCreate == Init /\ [][NextCreate]_vars

(***************************************************************************)
(* Sequences of DjangoGameRepository.create and remove calls, each with    *)
(* what it returned or raised (specification SpecRepository).              *)
(***************************************************************************)
RemoveCall(identifier) ==
    LET r == remove(db, identifier)
    IN  /\ db' = r.db
        /\ last' = [NoCall EXCEPT !.op = "remove", !.model = identifier,
                                  !.raised = r.raised,
                                  !.origin = IF r.raised = None THEN None ELSE "repository"]
        /\ UNCHANGED <<catalog, data, adapter_class, pc, row, calls, written, cell>>

NextRepository ==
    \/ \E game \in Drafts : CreateCall(game)
    \/ \E identifier \in 1..MaxGames : RemoveCall(identifier)

SpecRepository == Init /\ [][NextRepository]_vars

(***************************************************************************)
(* Searching the Steam catalog by name (steam/models.py,                   *)
(* steam/repositories.py).  The scores of fuzzywuzzy are tabulated on the  *)
(* names the model uses: two names that are equal once lower-cased and     *)
(* stripped of punctuation score 100, names with no character in common    *)
(* score 0.  A result is [raised, game, score]: game is the primary key of *)
(* the entry found, 0 for None or an empty queryset.                       *)
(***************************************************************************)
MaxCatalog == 2

\* fuzzywuzzy.utils.full_process: lower case, punctuation to blanks, trimmed
full_process(s) == IF s = "Doom!" THEN "doom" ELSE Lower(s)

\* fuzz.token_sort_ratio(a, b)
token_sort_ratio(a, b) ==
    LET p == full_process(a)
        q == full_process(b)
    IN  CASE p = q -> 100
          [] {p, q} = {"eternal doom", "doom eternal"} -> 100
          [] {p, q} \in {{"doom", "doom eternal"}, {"doom", "eternal doom"}} -> 50
          [] OTHER -> 0

\* fuzz.WRatio(a, b), the scorer of process.extract
WRatio(a, b) ==
    LET p == full_process(a)
        q == full_process(b)
    IN  CASE p = q -> 100
          [] {p, q} = {"eternal doom", "doom eternal"} -> 95
          [] {p, q} \in {{"doom", "doom eternal"}, {"doom", "eternal doom"}} -> 90
          [] OTHER -> 0

\* the first entry, in primary-key order, with the highest score
FirstBest(keys, scores) ==
    Min({k \in keys : \A j \in keys : scores[j] <= scores[k]})

\* the default of the parameter threshold of fuzzy_search
DefaultThreshold == 95

\* the test of line 30 of fuzzy_search
reaches_threshold(score, threshold) == score >= threshold

\* the exceptions fuzzy_matches[0] can end with on an empty list of names,
\* after the version of fuzzywuzzy
EmptyExtractRaises == {"IndexError", "RuntimeError"}

\* SteamGameQuerySet.fuzzy_search(name, threshold=threshold); on an empty
\* catalog it raises empty_raises
fuzzy_search(name, threshold, empty_raises) ==
    LET exact_matches == iexact_matches(name)
        keys          == DOMAIN catalog
    IN  IF exact_matches # {}
        THEN [raised |-> None, game |-> Min(exact_matches), score |-> 100]
        ELSE IF keys = {}
        THEN [raised |-> empty_raises, game |-> 0, score |-> 0]
        ELSE LET best       == FirstBest(keys, [k \in keys |-> WRatio(name, catalog[k].name)])
                 best_score == WRatio(name, catalog[best].name)
                 named      == {k \in keys : catalog[k].name = catalog[best].name}
             IN  IF ~reaches_threshold(best_score, threshold)
                 THEN [raised |-> None, game |-> 0, score |-> best_score]
                 ELSE IF Cardinality(named) > 1
                 THEN [raised |-> "MultipleObjectsReturned", game |-> 0, score |-> best_score]
                 ELSE [raised |-> None, game |-> best, score |-> best_score]

\* the loop of find_by_name over the entries from key k on:
\* [max_ratio, max_ratio_game], max_ratio_game the key of the entry or 0
RECURSIVE max_ratio_from(_, _, _)
max_ratio_from(name, k, acc) ==
    IF k > Len(catalog) THEN acc
    ELSE LET ratio == token_sort_ratio(name, catalog[k].name)
         IN  max_ratio_from(name, k + 1,
                 IF ratio > acc.max_ratio
                 THEN [max_ratio |-> ratio, max_ratio_game |-> k]
                 ELSE acc)

\* SteamGamesRepository.find_by_name(name)
find_by_name(name) ==
    LET exact == {k \in DOMAIN catalog : catalog[k].name = name}
    IN  IF Cardinality(exact) = 1
        THEN [raised |-> None, game |-> Min(exact), score |-> 100]
        ELSE IF exact # {}
        THEN [raised |-> None, game |-> 0, score |-> 0]
        ELSE LET m == max_ratio_from(name, 1, [max_ratio |-> 0, max_ratio_game |-> 0])
                 with_appid == IF m.max_ratio_game = 0 THEN {}
                               ELSE {k \in DOMAIN catalog :
                                        catalog[k].appid = catalog[m.max_ratio_game].appid}
             IN  IF with_appid = {}
                 THEN [raised |-> "DoesNotExist", game |-> 0, score |-> m.max_ratio]
                 ELSE IF Cardinality(with_appid) > 1
                 THEN [raised |-> None, game |-> 0, score |-> 0]
                 ELSE [raised |-> None, game |-> m.max_ratio_game, score |-> m.max_ratio]

\* the titles searched for and the entries the catalog is loaded with
Titles == {"Doom", "doom", "Doom!", "Eternal Doom", "Hush"}

SteamApps ==
    {[appid |-> "10", name |-> "DOOM"], [appid |-> "20", name |-> "Doom"],
     [appid |-> "30", name |-> "Doom"], [appid |-> "50", name |-> "Doom Eternal"]}

\* SteamGamesRepository.create(appid, name): update_or_create on both
SteamCreate(appid, name) ==
    /\ Len(catalog) < MaxCatalog
    /\ catalog' = IF \E k \in DOMAIN catalog : catalog[k] = [appid |-> appid, name |-> name]
                  THEN catalog
                  ELSE Append(catalog, [appid |-> appid, name |-> name])
    /\ last' = NoCall
    /\ UNCHANGED <<db, data, adapter_class, pc, row, calls, written, cell>>

\* SteamGame.objects.fuzzy_search(name)
FuzzySearch(name) ==
    /\ \E empty_raises \in EmptyExtractRaises :
          last' = [op |-> "fuzzy_search", name |-> name,
                   result |-> fuzzy_search(name, DefaultThreshold, empty_raises)]
    /\ UNCHANGED <<db, catalog, data, adapter_class, pc, row, calls, written, cell>>

\* SteamGamesRepository.find_by_name(name)
FindByName(name) ==
    /\ last' = [op |-> "find_by_name", name |-> name, result |-> find_by_name(name)]
    /\ UNCHANGED <<db, catalog, data, adapter_class, pc, row, calls, written, cell>>

NextSearch ==
    \/ \E app \in SteamApps : SteamCreate(app.appid, app.name)
    \/ \E name \in Titles : FuzzySearch(name)
    \/ \E name \in Titles : FindByName(name)

SpecSearch == Init /\ [][NextSearch]_vars

(***************************************************************************)
(* Reconciliation while the catalog is loaded (specification SpecSteam):   *)
(* links are created and saved again, load_steam_library adds              *)
(* entries to the catalog, set_steam_game_appid and the command            *)
(* match_steam_games run on what is stored.                                *)
(***************************************************************************)
LowerSteamEntry == Entry("steam", None, None, None, None)
UpperSteamEntry == Entry("STEAM", None, None, None, None)
PlainPCEntry    == Entry("PC", None, None, None, None)

SteamDrafts ==
    {Draft(0, "Doom", None, NoNotes, <<>>, <<SteamEntry>>),
     Draft(0, "Doom", None, NoNotes, <<>>, <<LowerSteamEntry>>),
     Draft(0, "Doom", None, NoNotes, <<>>, <<UpperSteamEntry>>),
     Draft(0, "Doom", None, NoNotes, <<>>, <<PlainPCEntry>>)}

\* the entries load_steam_library adds while links are stored
LoadedApps ==
    {[appid |-> "10", name |-> "DOOM"], [appid |-> "20", name |-> "Doom"],
     [appid |-> "50", name |-> "Doom Eternal"]}

\* the answers the operator gives to the prompts of match_steam_games
Answers == {"y", "n"}

\* manage.py match_steam_games with an operator who answers answer to every
\* prompt.  No path of handle reads the answer or appends to
\* multiple_matches: without a link to match both loops are empty, with one
\* the read of game.title ends the command before find_by_name is called.
MatchSteamGamesRun(answer) ==
    LET r == match_steam_games(db)
    IN  /\ db' = r.db
        /\ last' = [op |-> "match_steam_games", raised |-> r.raised,
                    answer |-> answer, multiple_matches |-> {}]
        /\ UNCHANGED <<catalog, data, adapter_class, pc, row, calls, written, cell>>

\* GameOnPlatform.save() on a stored link: the receiver runs again
SaveCall(lid) ==
    /\ \E l \in db.GameOnPlatform : l.id = lid
    /\ db' = GameOnPlatform_save(db, GopById(db, lid))
    /\ last' = [op |-> "save", link |-> lid]
    /\ UNCHANGED <<catalog, data, adapter_class, pc, row, calls, written, cell>>

\* steam.utils.set_steam_game_appid(gop) on a stored link, with what it returns
SetSteamGameAppidCall(lid) ==
    /\ \E l \in db.GameOnPlatform : l.id = lid
    /\ LET r == set_steam_game_appid(db, lid)
       IN  /\ db' = r.db
           /\ last' = [op |-> "set_steam_game_appid", link |-> lid, ret |-> r.ret]
    /\ UNCHANGED <<catalog, data, adapter_class, pc, row, calls, written, cell>>

NextSteam ==
    \/ \E game \in SteamDrafts : CreateCall(game)
    \/ \E app \in LoadedApps : SteamCreate(app.appid, app.name)
    \/ \E lid \in 1..MaxLinks : SaveCall(lid)
    \/ \E lid \in 1..MaxLinks : SetSteamGameAppidCall(lid)
    \/ \E answer \in Answers : MatchSteamGamesRun(answer)

SpecSteam == Init /\ [][NextSteam]_vars

(***************************************************************************)
(* The life of platform links (specification SpecLinks): links are         *)
(* created through the repository, soft-deleted and restored, removed      *)
(* through the API, while load_steam_library may add the game's title to   *)
(* the catalog.                                                            *)
(***************************************************************************)
LinkDrafts ==
    {Draft(0, "Doom", None, NoNotes, <<>>, <<>>),
     Draft(0, "Doom", None, NoNotes, <<>>, <<SteamEntry>>),
     Draft(0, "Doom", None, NoNotes, <<>>, <<PCEntry>>)}

LinkApps == {[appid |-> "10", name |-> "DOOM"]}

\* GameOnPlatform.soft_delete() on a stored link
SoftDeleteCall(lid) ==
    /\ \E l \in db.GameOnPlatform : l.id = lid
    /\ db' = soft_delete(db, lid)
    /\ last' = [op |-> "soft_delete", link |-> lid]
    /\ UNCHANGED <<catalog, data, adapter_class, pc, row, calls, written, cell>>

\* GameOnPlatform.restore() on a stored link
RestoreCall(lid) ==
    /\ \E l \in db.GameOnPlatform : l.id = lid
    /\ db' = restore(db, lid)
    /\ last' = [op |-> "restore", link |-> lid]
    /\ UNCHANGED <<catalog, data, adapter_class, pc, row, calls, written, cell>>

\* game_platform.delete() of GamePlatformDetailAPIView.delete: Model.delete
\* removes the row
delete_link(d, l) == [d EXCEPT !.GameOnPlatform = @ \ {l}]

\* GamePlatformDetailAPIView.delete(game_id, platform_id): [db, status,
\* raised].  get_object looks the game up with the default manager and
\* catches the three DoesNotExist only.
api_delete(d, game_id, platform_id) ==
    LET found == {l \in d.GameOnPlatform : l.game = game_id /\ l.platform = platform_id}
    IN  IF \/ ~(\E g \in get_queryset(d) : g.id = game_id)
           \/ platform_id \notin d.Platform
           \/ found = {}
        THEN [db |-> d, status |-> 404, raised |-> None]
        ELSE IF Cardinality(found) > 1
        THEN [db |-> d, status |-> 500, raised |-> "MultipleObjectsReturned"]
        ELSE [db |-> delete_link(d, CHOOSE l \in found : TRUE),
              status |-> 200, raised |-> None]

PlatformNames == {"Steam", "PC"}

\* DELETE on the game-platform relationship
ApiDeleteCall(game_id, platform_id) ==
    LET r == api_delete(db, game_id, platform_id)
    IN  /\ db' = r.db
        /\ last' = [op |-> "api_delete", game |-> game_id, platform |-> platform_id,
                    status |-> r.status, raised |-> r.raised]
        /\ UNCHANGED <<catalog, data, adapter_class, pc, row, calls, written, cell>>

NextLinks ==
    \/ \E game \in LinkDrafts : CreateCall(game)
    \/ \E app \in LinkApps : SteamCreate(app.appid, app.name)
    \/ \E lid \in 1..MaxLinks : SoftDeleteCall(lid)
    \/ \E lid \in 1..MaxLinks : RestoreCall(lid)
    \/ \E game_id \in 1..MaxGames : \E platform_id \in PlatformNames :
          ApiDeleteCall(game_id, platform_id)

SpecLinks == Init /\ [][NextLinks]_vars

(***************************************************************************)
(* The chain of one save (specification SpecSave): GameOnPlatform.save     *)
(* stores the row and sends platform_added_for_game, the receiver may      *)
(* write the identifier and save again, which sends the signal again.      *)
(* The chain is followed save by save; the interpreter ends a chain that   *)
(* nests deeper than its recursion limit with RecursionError.              *)
(***************************************************************************)
RecursionLimit == 3

\* GameOnPlatform.save of the row l at nesting depth nested:
\* [db, nested, raised], nested the number of saves the receiver made
RECURSIVE save_chain(_, _, _)
save_chain(d, l, nested) ==
    LET d1          == PutGop(d, l)
        steam_games == iexact_matches(GameById(d, l.game).name)
    IN  IF receiver_skips(l) \/ steam_games = {}
        THEN [db |-> d1, nested |-> nested, raised |-> None]
        ELSE IF nested >= RecursionLimit
        THEN [db |-> d1, nested |-> nested, raised |-> "RecursionError"]
        ELSE save_chain(d1, [l EXCEPT !.identifier = catalog[Min(steam_games)].appid],
                        nested + 1)

\* the entries the catalog is given: an appid is a text of up to 50
\* characters, the empty one included
SaveApps == {[appid |-> "10", name |-> "DOOM"], [appid |-> "", name |-> "Doom"]}

SavePlatforms == {"Steam", "steam", "PC"}

SaveIdentifiers == {None, "", "77"}

\* Game.objects.create(name="Doom")
GameCreate ==
    /\ db.nextGame <= MaxGames
    /\ db' = PutGame([db EXCEPT !.nextGame = @ + 1], NewGame(db.nextGame, "Doom"))
    /\ last' = [op |-> "game_create"]
    /\ UNCHANGED <<catalog, data, adapter_class, pc, row, calls, written, cell>>

\* GameOnPlatform.objects.create(game=..., platform=..., identifier=...)
LinkCreate(game_id, platform_id, identifier) ==
    /\ db.nextGop <= MaxLinks
    /\ \E g \in db.Game : g.id = game_id
    /\ LET r == save_chain([db EXCEPT !.nextGop = @ + 1, !.Platform = @ \cup {platform_id}],
                           NewGameOnPlatform(db.nextGop, game_id, platform_id, None, None,
                                             identifier),
                           0)
       IN  /\ db' = r.db
           /\ last' = [op |-> "save", link |-> db.nextGop, nested |-> r.nested,
                       raised |-> r.raised]
    /\ UNCHANGED <<catalog, data, adapter_class, pc, row, calls, written, cell>>

\* GameOnPlatform.save() on a stored link
LinkSave(lid) ==
    /\ \E l \in db.GameOnPlatform : l.id = lid
    /\ LET r == save_chain(db, GopById(db, lid), 0)
       IN  /\ db' = r.db
           /\ last' = [op |-> "save", link |-> lid, nested |-> r.nested,
                       raised |-> r.raised]
    /\ UNCHANGED <<catalog, data, adapter_class, pc, row, calls, written, cell>>

NextSave ==
    \/ GameCreate
    \/ \E app \in SaveApps : SteamCreate(app.appid, app.name)
    \/ \E game_id \in 1..MaxGames : \E platform_id \in SavePlatforms :
          \E identifier \in SaveIdentifiers : LinkCreate(game_id, platform_id, identifier)
    \/ \E lid \in 1..MaxLinks : LinkSave(lid)

SpecSave == Init /\ [][NextSave]_vars

(***************************************************************************)
(* The bulk import of the admin (specification SpecBulk): the names of a   *)
(* validated form are imported on one platform by process_bulk_import      *)
(* (games/admin_views/bulk_import.py) or by GameAdmin._process_bulk_import  *)
(* (games/admin.py), into a database that holds games and platforms made   *)
(* before.  Both run in one transaction: an exception leaves the database  *)
(* as it was.  A result is [db, duplicates, created, raised].              *)
(***************************************************************************)
MaxNames == 2

\* the link a bulk import creates: bundle date and price per game, no identifier
BulkLink(d, game_id, platform_id) ==
    NewGameOnPlatform(d.nextGop, game_id, platform_id, "2024-01-15", "0.00", None)

\* the names process_bulk_import sets aside: a link on the platform exists
\* for a game of that name, deleted links included
link_exists(d, name, platform_id) ==
    \E l \in d.GameOnPlatform :
        Lower(GameById(d, l.game).name) = Lower(name) /\ l.platform = platform_id

\* the names GameAdmin._process_bulk_import sets aside: the default manager
\* has a game of that name
game_exists(d, name) ==
    \E g \in get_queryset(d) : Lower(g.name) = Lower(name)

\* the loop of process_bulk_import over the new names from entry k on
RECURSIVE create_games_and_links(_, _, _, _, _)
create_games_and_links(d, new, k, platform_id, created) ==
    IF k > Len(new) THEN [db |-> d, created |-> created, raised |-> None]
    ELSE LET found == {g \in get_queryset(d) : Lower(g.name) = Lower(new[k])}
         IN  IF Cardinality(found) > 1
             THEN [db |-> d, created |-> created, raised |-> "MultipleObjectsReturned"]
             ELSE LET game_id == IF found # {} THEN (CHOOSE g \in found : TRUE).id
                                 ELSE d.nextGame
                      d1 == IF found # {} THEN d
                            ELSE PutGame([d EXCEPT !.nextGame = @ + 1],
                                         NewGame(d.nextGame, new[k]))
                      d2 == GameOnPlatform_save([d1 EXCEPT !.nextGop = @ + 1],
                                                BulkLink(d1, game_id, platform_id))
                  IN  create_games_and_links(d2, new, k + 1, platform_id,
                                             Append(created, game_id))

\* the loop of GameAdmin._process_bulk_import: a game is created for every
\* new name
RECURSIVE admin_create_games_and_links(_, _, _, _, _)
admin_create_games_and_links(d, new, k, platform_id, created) ==
    IF k > Len(new) THEN [db |-> d, created |-> created, raised |-> None]
    ELSE LET d1 == PutGame([d EXCEPT !.nextGame = @ + 1], NewGame(d.nextGame, new[k]))
             d2 == GameOnPlatform_save([d1 EXCEPT !.nextGop = @ + 1],
                                       BulkLink(d1, d.nextGame, platform_id))
         IN  admin_create_games_and_links(d2, new, k + 1, platform_id,
                                          Append(created, d.nextGame))

BulkViews == {"process_bulk_import", "GameAdmin"}

\* process_bulk_import / GameAdmin._process_bulk_import on the names of the
\* form, all on the platform platform_id
bulk_import(d, view, names, platform_id) ==
    LET is_dup(n)  == IF view = "process_bulk_import" THEN link_exists(d, n, platform_id)
                      ELSE game_exists(d, n)
        duplicates == SelectSeq(names, is_dup)
        new        == SelectSeq(names, LAMBDA n : ~is_dup(n))
        r          == IF view = "process_bulk_import"
                      THEN create_games_and_links(d, new, 1, platform_id, <<>>)
                      ELSE admin_create_games_and_links(d, new, 1, platform_id, <<>>)
    IN  IF new = <<>>
        THEN [db |-> d, duplicates |-> duplicates, created |-> <<>>, raised |-> None]
        ELSE IF r.raised # None
        THEN [db |-> d, duplicates |-> duplicates, created |-> <<>>, raised |-> r.raised]
        ELSE [db |-> r.db, duplicates |-> duplicates, created |-> r.created,
              raised |-> None]

BulkNames == UNION {[1..n -> {"Doom", "doom"}] : n \in 1..MaxNames}

\* Platform.objects.create(name=...)
PlatformCreate(name) ==
    /\ name \notin db.Platform
    /\ db' = [db EXCEPT !.Platform = @ \cup {name}]
    /\ last' = [op |-> "platform_create"]
    /\ UNCHANGED <<catalog, data, adapter_class, pc, row, calls, written, cell>>

\* a POST of the bulk import form that is valid
BulkImport(view, names, platform_id) ==
    /\ platform_id \in db.Platform
    /\ LET r == bulk_import(db, view, names, platform_id)
       IN  /\ WithinBounds(r.db)
           /\ db' = r.db
           /\ last' = [op |-> "bulk_import", view |-> view, names |-> names,
                       platform |-> platform_id, duplicates |-> r.duplicates,
                       created |-> r.created, raised |-> r.raised]
    /\ UNCHANGED <<catalog, data, adapter_class, pc, row, calls, written, cell>>

NextBulk ==
    \/ GameCreate
    \/ \E name \in PlatformNames : PlatformCreate(name)
    \/ \E view \in BulkViews : \E names \in BulkNames : \E platform_id \in PlatformNames :
          BulkImport(view, names, platform_id)

SpecBulk == Init /\ [][NextBulk]_vars

(***************************************************************************)
(* Reads of the adapter attributes (specification SpecCoerce): an adapter  *)
(* is built on a raw cell and one attribute of it is read.  price_parser   *)
(* is not part of the repository; price is read on None and on texts.      *)
(***************************************************************************)
ReadAttribute(attr, raw) ==
    /\ cell = NoRead
    /\ attr = "price" => raw.kind # "bool"
    /\ cell' = [attr |-> attr, raw |-> raw, result |-> read(attr, raw)]
    /\ UNCHANGED <<db, catalog, last, data, adapter_class, pc, row, calls, written>>

NextCoerce ==
    /\ cell = NoRead
    /\ \E attr \in Attributes : \E raw \in RawCells : ReadAttribute(attr, raw)

SpecCoerce == Init /\ [][NextCoerce]_vars

(***************************************************************************)
(* The platform list of a row (specification SpecPlatforms): an adapter is *)
(* built on the cells platform_1..3, price, added, source and identifier   *)
(* of a row and its platforms are read, each entry with the attributes     *)
(* GameOnPlatformInterface.to_dict reads from it.                          *)
(***************************************************************************)
\* CSVGameOnPlatformAdapter(data) read whole; a key data lacks reads as None
GameOnPlatformAdapter(name_cell, price_cell, added_cell, source_cell) ==
    [name       |-> Same(name_cell),
     price      |-> price(price_cell),
     added      |-> added(added_cell),
     source     |-> source(source_cell),
     identifier |-> Absent]

\* CSVGameAdapter.platforms: the entries of the truthy platform cells, in
\* the order of the columns
platform_entries(game_data) ==
    LET gops == <<GameOnPlatformAdapter(game_data.platform_1, game_data.price, game_data.added, game_data.source),
                  GameOnPlatformAdapter(game_data.platform_2, NoneCell, NoneCell, NoneCell),
                  GameOnPlatformAdapter(game_data.platform_3, NoneCell, NoneCell, NoneCell)>>
        kept == <<CellTruthy(game_data.platform_1), CellTruthy(game_data.platform_2),
                  CellTruthy(game_data.platform_3)>>
    IN  SelectSeq([k \in 1..3 |-> [column |-> k, gop |-> gops[k]]],
                  LAMBDA e : kept[e.column])

PlatformCells == {NoneCell, StrCell(<<>>), StrCell(<<"a">>), BoolCell(TRUE)}

CSVRows ==
    [platform_1 : PlatformCells, platform_2 : PlatformCells, platform_3 : PlatformCells,
     price      : {NoneCell, StrCell(<<"2">>)},
     added      : {NoneCell, StrCell(DateText)},
     source     : {NoneCell, StrCell(<<"a">>)},
     identifier : {NoneCell, StrCell(<<"1">>)}]

\* CSVGameAdapter(data).platforms
ReadPlatforms(game_data) ==
    /\ last = NoCall
    /\ last' = [op |-> "platforms", data |-> game_data,
                result |-> platform_entries(game_data)]
    /\ UNCHANGED <<db, catalog, data, adapter_class, pc, row, calls, written, cell>>

NextPlatforms ==
    /\ last = NoCall
    /\ \E game_data \in CSVRows : ReadPlatforms(game_data)

SpecPlatforms == Init /\ [][NextPlatforms]_vars

(***************************************************************************)
(* CSVGamesImporter.process over a dataset (specification SpecImport).     *)
(* A row is [name, played, platform_1, source]: name, platform_1 and       *)
(* source are None, True or a text taken whole; played is a raw cell.      *)
(* The importer is built with the default adapter class CSVGameAdapter,    *)
(* which has the attribute title and no attribute name, or with an         *)
(* adapter class that also gives the cell "name" as name                   *)
(* (GameInterface.name), as the adapters of the importer's tests do.       *)
(***************************************************************************)
Row(name, played_cell, platform_1, vendor) ==
    [name |-> name, played |-> played_cell, platform_1 |-> platform_1,
     source |-> vendor]

Rows ==
    {Row(None, NoneCell, None, None),
     Row("", NoneCell, None, None),
     Row(" ", NoneCell, None, None),
     Row("Doom", StrCell(<<"1">>), "Steam", None),
     Row("Doom", StrCell(<<"a">>), "Steam", None),
     Row("Quake", NoneCell, None, None),
     Row("Quake", NoneCell, PyTrue, None),
     Row("Quake", NoneCell, " PC", "GOG")}

Datasets == UNION {[1..n -> Rows] : n \in 0..MaxRows}

AdapterClasses == {"CSVGameAdapter", "NamedCSVGameAdapter"}

\* data_adapter.name: [raised, value]
adapter_name(cls, game_data) ==
    IF cls = "CSVGameAdapter"
    THEN [raised |-> "AttributeError", value |-> None]
    ELSE [raised |-> None, value |-> game_data.name]

\* CSVGameAdapter.platforms: the link adapters of the truthy platform cells
platforms(game_data) ==
    IF Truthy(game_data.platform_1)
    THEN <<[name |-> game_data.platform_1, source |-> game_data.source]>>
    ELSE <<>>

\* CSVGameOnPlatformAdapter.platform on a cell taken whole: [raised, value]
platform_of(name) ==
    IF name \in {None, PyTrue, PyFalse}
    THEN [raised |-> "AttributeError", value |-> None]
    ELSE [raised |-> None, value |-> Strip(name)]

\* the value of played the draft carries
played_value(raw) ==
    LET r == played(raw)
    IN  IF r.tag = "none" THEN None ELSE IF r.b THEN PyTrue ELSE PyFalse

\* the first exception GameInterface.to_dict meets on the adapter of a row:
\* the platforms are read before played
to_dict_raises(game_data) ==
    LET gops == platforms(game_data)
    IN  IF \E k \in DOMAIN gops : platform_of(gops[k].name).raised # None
        THEN "AttributeError"
        ELSE played(game_data.played).raised

\* the adapter of a row as the draft DjangoGameRepository.create receives
Adapt(game_data) ==
    LET gops   == platforms(game_data)
        raises == to_dict_raises(game_data)
    IN  [id        |-> 0,
         name      |-> game_data.name,
         played    |-> IF raises = None THEN played_value(game_data.played) ELSE None,
         review    |-> None,
         notes     |-> NoNotes,
         genres    |-> <<>>,
         platforms |-> IF raises = None
                       THEN [k \in DOMAIN gops |->
                                Entry(platform_of(gops[k].name).value, None, None,
                                      gops[k].source, None)]
                       ELSE <<>>,
         raises    |-> raises]

\* the condition of line 35: the row is left out
row_skipped(name) == ~Truthy(name)

\* a process that tells a notice for every row
notice_for_every_row(created) == TRUE

\* the condition of line 38
is_duplicate(created) == ~created

\* a notice that leaves the title out
notice_without_title(title) == <<"Duplicate", "">>

\* the line tqdm.write receives
duplicate_line(title) == <<"Duplicate", title>>

InitImport ==
    /\ db = EmptyDB
    /\ catalog \in Catalogs
    /\ last = NoCall
    /\ data \in Datasets
    /\ adapter_class \in AdapterClasses
    /\ pc = "idle"
    /\ row = 0
    /\ calls = <<>>
    /\ written = <<>>
    /\ cell = NoRead

\* process() is called: the data is loaded, the loop stands before row 1
ProcessStart ==
    /\ pc = "idle"
    /\ pc' = "loop"
    /\ row' = 1
    /\ UNCHANGED <<db, catalog, last, data, adapter_class, calls, written, cell>>

\* an iteration in which data_adapter.name raises: process ends with it
NameFault ==
    /\ pc = "loop" /\ row <= Len(data)
    /\ adapter_name(adapter_class, data[row]).raised # None
    /\ pc' = "raised"
    /\ last' = [NoCall EXCEPT !.op = "process",
                              !.raised = adapter_name(adapter_class, data[row]).raised,
                              !.origin = "adapter"]
    /\ UNCHANGED <<db, catalog, data, adapter_class, row, calls, written, cell>>

\* an iteration that leaves the row out (continue)
SkipRow ==
    /\ pc = "loop" /\ row <= Len(data)
    /\ adapter_name(adapter_class, data[row]).raised = None
    /\ row_skipped(adapter_name(adapter_class, data[row]).value)
    /\ row' = row + 1
    /\ UNCHANGED <<db, catalog, last, data, adapter_class, pc, calls, written, cell>>

\* an iteration that calls repository.create, and writes the notice of a
\* duplicate; an exception of the call ends process
CreateRow ==
    /\ pc = "loop" /\ row <= Len(data)
    /\ adapter_name(adapter_class, data[row]).raised = None
    /\ ~row_skipped(adapter_name(adapter_class, data[row]).value)
    /\ LET game  == Adapt(data[row])
           r     == create(db, game)
           title == IF r.raised = None THEN GameById(r.db, r.model).name ELSE None
       IN  /\ db' = r.db
           /\ calls' = Append(calls, [row |-> row, name |-> game.name,
                                      model |-> r.model, created |-> r.created,
                                      raised |-> r.raised])
           /\ last' = [op |-> "process", draft |-> game, model |-> r.model,
                       created |-> r.created, raised |-> r.raised,
                       origin |-> IF r.raised = None THEN None
                                  ELSE IF game.raises # None THEN "coercion"
                                  ELSE "repository"]
           /\ IF r.raised # None
              THEN pc' = "raised" /\ UNCHANGED <<row, written>>
              ELSE /\ pc' = pc
                   /\ row' = row + 1
                   /\ written' = IF is_duplicate(r.created)
                                 THEN Append(written, duplicate_line(title))
                                 ELSE written
    /\ UNCHANGED <<catalog, data, adapter_class, cell>>

\* the loop is through: process returns
Finish ==
    /\ pc = "loop" /\ row > Len(data)
    /\ pc' = "done"
    /\ UNCHANGED <<db, catalog, last, data, adapter_class, row, calls, written, cell>>

NextImport == ProcessStart \/ NameFault \/ SkipRow \/ CreateRow \/ Finish

SpecImport == InitImport /\ [][NextImport]_vars

(***************************************************************************)
(* Claims.                                                                 *)
(***************************************************************************)
\* no step changes the identifier of a link whose identifier is non-empty
IdentifierKept ==
    \A l \in db.GameOnPlatform : \A m \in db'.GameOnPlatform :
        (Truthy(l.identifier) /\ m.id = l.id) => m.identifier = l.identifier

\* on a link with an identifier the receiver and set_steam_game_appid write nothing
ReconciliationNoOp ==
    \A l \in db.GameOnPlatform :
        Truthy(l.identifier) =>
            /\ add_steam_game_id_for_new_game(db, l.id) = db
            /\ set_steam_game_appid(db, l.id).db = db

\* C3: reconciliation (the receiver behind every save, set_steam_game_appid,
\* match_steam_games) never changes a non-empty identifier of a platform
\* link, whatever the catalog holds, and run on such a link it writes nothing.
C3_IdentifierNeverOverwritten == [](ReconciliationNoOp) /\ [][IdentifierKept]_vars

\* C3 witness: a Steam link carrying the identifier "77" was saved again
\* (soft-deleted) while the catalog offers another appid for its game.
C3_Witness ==
    \E l \in db.GameOnPlatform :
        /\ Lower(l.platform) = "steam"
        /\ l.identifier = "77"
        /\ l.deleted
        /\ iexact_matches(GameById(db, l.game).name) # {}

\* C2 (as claimed): a second create with the draft of a first create that
\* returned created = True returns created = False and the same record, and
\* one game with that title is stored.
C2_SecondCreateFindsFirst ==
    [][\A game \in Drafts :
          (/\ last.op = "create" /\ last.draft = game
           /\ last.raised = None /\ last.created
           /\ CreateCall(game))
          => (/\ last'.raised = None
              /\ ~last'.created
              /\ last'.model = last.model
              /\ Cardinality({g \in db'.Game : g.name = game.name}) = 1)]_vars

\* C9 (as claimed): no game has two platform links with the same platform,
\* added, price and identifier.
C9_NoDuplicateLinks ==
    \A l \in db.GameOnPlatform : \A m \in db.GameOnPlatform :
        (/\ l.game = m.game /\ l.platform = m.platform /\ l.added = m.added
         /\ l.price = m.price /\ l.identifier = m.identifier) => l.id = m.id

\* C10 (as claimed): a create whose draft title differs only by letter case
\* from the name of a game the default manager lists returns that game with
\* created = False and stores no further game.
C10_CaseInsensitiveTitle ==
    [][\A game \in Drafts :
          LET existing == {g \in get_queryset(db) :
                              g.name # game.name /\ Lower(g.name) = Lower(game.name)}
          IN  (existing # {} /\ game.id = 0 /\ CreateCall(game))
              => (/\ last'.raised = None
                  /\ ~last'.created
                  /\ last'.model \in {g.id : g \in existing}
                  /\ Cardinality(db'.Game) = Cardinality(db.Game))]_vars

\* the rows of the calls of repository.create, in the order of the calls
CalledRows == [k \in DOMAIN calls |-> calls[k].row]

\* a title that is not blank: present and not empty after trimming
HasTitle(game_data) == Truthy(game_data.name) /\ Strip(game_data.name) # ""

\* C1 (as claimed): no row whose title is missing or blank (empty after
\* trimming) is passed to repository.create.
C1_BlankTitleNeverCreated ==
    \A k \in DOMAIN calls : HasTitle(data[calls[k].row])

\* C4 (as claimed): when process has returned, repository.create was called
\* once for each row with a non-blank title and for no other row, in the
\* order of the rows.
C4_OneCallPerTitledRowInOrder ==
    pc = "done" =>
        CalledRows = SelectSeq([k \in DOMAIN data |-> k], LAMBDA k : HasTitle(data[k]))

\* C5 (as claimed): reading an attribute of a row adapter on a raw cell
\* (None, an empty text, a boolean, digits, any other text) never raises.
C5_CoercionNeverRaises == cell.result.raised = None

\* C6 (as claimed): an import run never ends by the exception of a cell
\* that fails to coerce.
C6_CoercionFaultNeverAborts == pc = "raised" => last.origin # "coercion"

\* the titles of the games that the calls so far found (created = False)
RECURSIVE DuplicateTitles(_)
DuplicateTitles(cs) ==
    IF cs = <<>> THEN <<>>
    ELSE (IF Head(cs).raised = None /\ ~Head(cs).created
          THEN <<GameById(db, Head(cs).model).name>> ELSE <<>>)
         \o DuplicateTitles(Tail(cs))

\* the lines written are one "Duplicate <title>" for every call that
\* returned created = False, in the order of the calls, and no other line
NoticePerDuplicate ==
    written = [k \in DOMAIN DuplicateTitles(calls) |-> <<"Duplicate", DuplicateTitles(calls)[k]>>]

\* the step of a call that returns writes one line if created is False and
\* none if it is True, and the loop goes to the next row
NoticeStep ==
    (Len(calls') = Len(calls) + 1 /\ last'.raised = None)
        => /\ pc' = "loop" /\ row' = row + 1
           /\ Len(written') = Len(written) + (IF last'.created THEN 0 ELSE 1)

\* when process has returned, every row after a duplicate was left out as
\* nameless or passed to repository.create
RowsAfterDuplicateTaken ==
    pc = "done" =>
        \A k \in DOMAIN calls : \A j \in DOMAIN data :
            (~calls[k].created /\ j > calls[k].row)
                => (~Truthy(data[j].name) \/ \E i \in DOMAIN calls : calls[i].row = j)

\* C7: process writes exactly one duplicate notice, with the title of the
\* game found, for every row whose create call returns created = False and
\* none for a row whose game was created, and after a duplicate it goes on
\* with the following rows.
C7_OneNoticePerDuplicate ==
    [](NoticePerDuplicate /\ RowsAfterDuplicateTaken) /\ [][NoticeStep]_vars

\* C7 witness: a run has returned after a created row, a duplicate row with
\* its notice, and a row that was created after the duplicate.
C7_Witness ==
    /\ pc = "done"
    /\ Len(written) = 1
    /\ \E k \in DOMAIN calls :
          /\ ~calls[k].created
          /\ \E i \in DOMAIN calls : i < k /\ calls[i].created
          /\ \E j \in DOMAIN calls : j > k /\ calls[j].created

RowsTaken ==
    CASE pc = "idle" -> 0
      [] pc = "loop" -> row - 1
      [] pc = "done" -> Len(data)
      [] OTHER       -> row

NotesContained(stored, now) ==
    \/ stored = NoNotes
    \/ \E k \in 0..(Len(now) - Len(stored)) : SubSeq(now, k + 1, k + Len(stored)) = stored

\* C11: a create that finds a game by its title replaces name, played and
\* review of the stored game only by a draft value that is not None and
\* differs (a None of the draft leaves the stored value), and the notes
\* stored before are still part of the notes after the call.
C11_MergeKeepsStoredValues ==
    [][\A game \in Drafts :
          (CreateCall(game) /\ last'.raised = None /\ ~last'.created)
          => LET old == GameById(db, last'.model)
                 new == GameById(db', last'.model)
             IN  /\ new.name = (IF game.name # None /\ game.name # old.name
                                THEN game.name ELSE old.name)
                 /\ new.played = (IF game.played # None /\ game.played # old.played
                                  THEN game.played ELSE old.played)
                 /\ new.review = (IF game.review # None /\ game.review # old.review
                                  THEN game.review ELSE old.review)
                 /\ game.review = None => new.review = old.review
                 /\ game.notes = NoNotes => new.notes = old.notes
                 /\ NotesContained(old.notes, new.notes)]_vars

\* C11 witness: a create found the game that held the notes n1 and the
\* review 7, and the game now holds the review 8 and both notes.
C11_Witness ==
    /\ last.op = "create" /\ last.raised = None /\ ~last.created
    /\ last.draft.review = "8"
    /\ \E g \in db.Game :
          g.id = last.model /\ g.review = "8" /\ g.notes = <<"n2", "n1">>

\* C12 (as claimed): after remove(id) no game with that id is stored, and
\* remove raises only when no game had that id and then changes nothing.
C12_RemoveDeletesStoredGame ==
    /\ last.op = "remove" => ~(\E g \in all_with_orphaned(db) : g.id = last.model)
    /\ [][\A identifier \in 1..MaxGames :
            (RemoveCall(identifier) /\ last'.raised # None)
                => (db' = db /\ ~(\E g \in all_with_orphaned(db) : g.id = identifier))]_vars

\* the highest of the scores name has against the names of the catalog
Highest(scores) == CHOOSE x \in scores \cup {0} : \A y \in scores \cup {0} : y <= x

TopWRatio(name) == Highest({WRatio(name, catalog[k].name) : k \in DOMAIN catalog})

TopTokenSortRatio(name) ==
    Highest({token_sort_ratio(name, catalog[k].name) : k \in DOMAIN catalog})

\* C16 (as claimed): a search for a title with no exact match and no entry
\* of positive score, the empty catalog included, by fuzzy_search or by
\* find_by_name, returns no entry and does not raise.
C16_NoMatchNeverRaises ==
    (/\ last.op \in {"fuzzy_search", "find_by_name"}
     /\ iexact_matches(last.name) = {}
     /\ TopWRatio(last.name) = 0
     /\ TopTokenSortRatio(last.name) = 0)
        => (last.result.raised = None /\ last.result.game = 0)

\* C17 (as claimed): on a catalog with entries and no exact match,
\* fuzzy_search returns an entry of the highest score if that score is at
\* least the threshold 95, and returns no entry if it is lower.
C17_BestAtOrAboveThreshold ==
    (/\ last.op = "fuzzy_search"
     /\ catalog # <<>>
     /\ iexact_matches(last.name) = {})
        => /\ last.result.raised = None
           /\ IF TopWRatio(last.name) >= DefaultThreshold
              THEN /\ last.result.game \in DOMAIN catalog
                   /\ WRatio(last.name, catalog[last.result.game].name)
                          = TopWRatio(last.name)
              ELSE last.result.game = 0

\* the catalog entries whose name is name when case is ignored, their appids
ExactEntries(name) == {k \in DOMAIN catalog : Lower(catalog[k].name) = Lower(name)}

ExactAppids(name) == {catalog[k].appid : k \in ExactEntries(name)}

TitleOf(d, l) == GameById(d, l.game).name

\* the spellings of the platform name the reconciliation takes for Steam
SteamSpellings == {"Steam", "steam", "STEAM"}

\* the links a create call stored
NewLinks == {m \in db'.GameOnPlatform : m.id >= db.nextGop}

\* C13: whenever the title of a game has a catalog entry of the same name,
\* case ignored, a save of its Steam link without identifier, a call of
\* set_steam_game_appid on it and the creation of such a link each leave the
\* link with the appid of an entry of that name, whatever else the catalog
\* holds.
C13_ExactMatchAssigned ==
    [][/\ \A lid \in 1..MaxLinks :
            (/\ SaveCall(lid) \/ SetSteamGameAppidCall(lid)
             /\ GopById(db, lid).platform \in SteamSpellings
             /\ ~Truthy(GopById(db, lid).identifier)
             /\ ExactEntries(TitleOf(db, GopById(db, lid))) # {})
                => GopById(db', lid).identifier
                       \in ExactAppids(TitleOf(db, GopById(db, lid)))
       /\ \A game \in SteamDrafts :
            (CreateCall(game) /\ last'.raised = None /\ ExactEntries(game.name) # {})
                => \A m \in NewLinks :
                       m.platform \in SteamSpellings
                           => m.identifier \in ExactAppids(game.name)]_vars

\* a link made before the catalog had its title is given the appid of the
\* entry of that name, the second of the catalog, when it is saved again
C13_Witness ==
    /\ last.op = "save"
    /\ catalog = <<[appid |-> "50", name |-> "Doom Eternal"], [appid |-> "10", name |-> "DOOM"]>>
    /\ \E l \in db.GameOnPlatform :
          /\ l.id = last.link
          /\ l.platform = "Steam"
          /\ TitleOf(db, l) = "Doom"
          /\ l.identifier = "10"

\* C14 (as claimed): after a run of match_steam_games every link of the
\* platform Steam whose title has exactly one catalog entry of that name,
\* case ignored, carries that entry's appid, and a link left without
\* identifier whose title has several such entries has its game in the
\* list of multiple matches.
C14_UniqueExactAssignedAmbiguousListed ==
    last.op = "match_steam_games"
        => \A l \in db.GameOnPlatform :
              l.platform = "Steam"
                  => /\ Cardinality(ExactEntries(TitleOf(db, l))) = 1
                            => l.identifier \in ExactAppids(TitleOf(db, l))
                     /\ (Cardinality(ExactEntries(TitleOf(db, l))) > 1 /\ l.identifier = None)
                            => l.game \in last.multiple_matches

\* C15 (as claimed): after a run of match_steam_games a link of the platform
\* Steam whose title has no catalog entry of that name but a best candidate
\* of positive score carries the appid of a best candidate if the operator
\* answered yes, and no identifier if not.
C15_FuzzyWrittenIffOperatorAgrees ==
    last.op = "match_steam_games"
        => \A l \in db.GameOnPlatform :
              (/\ l.platform = "Steam"
               /\ ExactEntries(TitleOf(db, l)) = {}
               /\ TopTokenSortRatio(TitleOf(db, l)) > 0)
                  => IF last.answer = "y"
                     THEN \E k \in DOMAIN catalog :
                             /\ token_sort_ratio(TitleOf(db, l), catalog[k].name)
                                    = TopTokenSortRatio(TitleOf(db, l))
                             /\ l.identifier = catalog[k].appid
                     ELSE l.identifier = None

\* C18: a save of a stored link of a platform other than Steam changes
\* nothing, and a link created on such a platform keeps the identifier of
\* its entry, whatever the catalog holds; a link named "Steam", "steam" or
\* "STEAM" without identifier whose title is in the catalog has an
\* identifier after its save or its creation.
C18_OnlySteamLinksReconciled ==
    [][/\ \A lid \in 1..MaxLinks :
            SaveCall(lid)
                => IF GopById(db, lid).platform \in SteamSpellings
                   THEN (/\ ~Truthy(GopById(db, lid).identifier)
                         /\ ExactEntries(TitleOf(db, GopById(db, lid))) # {})
                            => Truthy(GopById(db', lid).identifier)
                   ELSE db' = db
       /\ \A game \in SteamDrafts :
            (CreateCall(game) /\ last'.raised = None)
                => \A m \in NewLinks :
                       IF m.platform \in SteamSpellings
                       THEN ExactEntries(game.name) # {} => Truthy(m.identifier)
                       ELSE \E k \in DOMAIN game.platforms :
                               /\ game.platforms[k].platform = m.platform
                               /\ m.identifier = game.platforms[k].identifier]_vars

\* a PC link without identifier was saved with its title in the catalog,
\* next to a link named "STEAM" that was given the identifier
C18_Witness ==
    /\ last.op = "save"
    /\ \E l \in db.GameOnPlatform :
          /\ l.id = last.link
          /\ l.platform = "PC"
          /\ l.identifier = None
          /\ ExactEntries(TitleOf(db, l)) # {}
          /\ \E s \in db.GameOnPlatform :
                /\ s.game = l.game
                /\ s.platform = "STEAM"
                /\ s.identifier \in ExactAppids(TitleOf(db, l))

\* the text s is a range "N-M" of two decimal numbers, N at most M,
\* with the hyphen at position k
RangeAt(s, k) ==
    /\ k \in 2..(Len(s) - 1)
    /\ s[k] = "-"
    /\ AllDigits(SubSeq(s, 1, k - 1))
    /\ AllDigits(SubSeq(s, k + 1, Len(s)))
    /\ DecimalValue(SubSeq(s, 1, k - 1)) <= DecimalValue(SubSeq(s, k + 1, Len(s)))

\* C19 (as claimed): play_priority, max_players and review read on a range
\* "N-M" give the larger bound M.
C19_RangeGivesLargerBound ==
    (cell.attr \in {"play_priority", "max_players", "review"} /\ cell.raw.kind = "str")
        => \A k \in DOMAIN cell.raw.s :
              RangeAt(cell.raw.s, k)
                  => cell.result = IntVal(DecimalValue(SubSeq(cell.raw.s, k + 1, Len(cell.raw.s))))

\* the text s is an integer as int() reads it: blanks, an optional sign,
\* decimal digits from position a to position b, blanks
IntegerTextAt(s, a, b) ==
    /\ a <= b
    /\ \A k \in a..b : s[k] \in Digits
    /\ \A k \in (b + 1)..Len(s) : s[k] = " "
    /\ \A k \in 1..(a - 1) : s[k] = " " \/ (k = a - 1 /\ s[k] \in {"-", "+"})

IsIntegerText(s) == \E a \in DOMAIN s : \E b \in DOMAIN s : IntegerTextAt(s, a, b)

\* C20: controller_support read on None is absent, on a native boolean that
\* boolean, on a text that is an integer whether the integer is not zero,
\* and on any other text, the empty one included, absent.
C20_ControllerSupportTriState ==
    cell.attr = "controller_support"
        => cell.result =
              CASE cell.raw.kind = "none" -> Absent
                [] cell.raw.kind = "bool" -> BoolVal(cell.raw.b)
                [] OTHER ->
                     IF IsIntegerText(cell.raw.s)
                     THEN BoolVal(\E k \in DOMAIN cell.raw.s : cell.raw.s[k] \in Digits \ {"0"})
                     ELSE Absent

\* a text that is present and no integer was read as absent
C20_Witness ==
    /\ cell.attr = "controller_support"
    /\ cell.raw = StrCell(<<"2", "a">>)
    /\ cell.result = Absent

\* C21 (as claimed): play_priority read on any raw cell is absent or an
\* integer from 0 to 10.
C21_PlayPriorityInRange ==
    cell.attr = "play_priority"
        => \/ cell.result = Absent
           \/ /\ cell.result.raised = None
              /\ cell.result.tag = "int"
              /\ cell.result.i \in 0..10

\* the number an integer text stands for: its digits read in base ten,
\* negated after a minus sign
IntegerTextValue(s) ==
    LET a == CHOOSE a \in DOMAIN s : \E b \in DOMAIN s : IntegerTextAt(s, a, b)
        b == CHOOSE b \in DOMAIN s : IntegerTextAt(s, a, b)
        n == DecimalValue(SubSeq(s, a, b))
    IN  IF a > 1 /\ s[a - 1] = "-" THEN 0 - n ELSE n

FirstTwo(s) == SubSeq(s, 1, IF Len(s) < 2 THEN Len(s) ELSE 2)

\* C27: play_priority, max_players and review read on a text that is not
\* empty give the integer of its first two characters if they are an
\* integer text, else of its last character, else of its first character,
\* else absent; read on None, on the empty text and on a native boolean
\* they give absent.
C27_ConvertToIntOrder ==
    cell.attr \in {"play_priority", "max_players", "review"}
        => cell.result =
              IF cell.raw.kind # "str" \/ cell.raw.s = <<>> THEN Absent
              ELSE LET s == cell.raw.s
                   IN  IF IsIntegerText(FirstTwo(s))
                       THEN IntVal(IntegerTextValue(FirstTwo(s)))
                       ELSE IF s[Len(s)] \in Digits
                       THEN IntVal(DigitValue(s[Len(s)]))
                       ELSE IF s[1] \in Digits
                       THEN IntVal(DigitValue(s[1]))
                       ELSE Absent

\* "2+a": neither the first two characters nor the last one are an integer,
\* the first one is taken
C27_Witness ==
    /\ cell.attr = "review"
    /\ cell.raw = StrCell(<<"2", "+", "a">>)
    /\ cell.result = IntVal(2)

\* the entry a platform cell gives when it carries the cells price_cell,
\* added_cell, source_cell and identifier_cell of the row
EntryCarrying(name_cell, price_cell, added_cell, source_cell, identifier_cell) ==
    [name       |-> Same(name_cell),
     price      |-> IF price_cell = NoneCell THEN Absent
                    ELSE Val("decimal", FALSE, 0, price_cell.s),
     added      |-> IF added_cell = NoneCell THEN Absent
                    ELSE Val("date", FALSE, 0, added_cell.s),
     source     |-> Same(source_cell),
     identifier |-> Same(identifier_cell)]

\* C22 (as claimed): the platform list of a row has, in the order of the
\* columns, one entry for each platform cell that is present; the entry of
\* column 1 carries the price, the date, the source and the identifier of
\* the row, the entries of columns 2 and 3 carry their name and nothing
\* else.
C22_OnlyFirstSlotCarriesMetadata ==
    last.op = "platforms"
        => LET row_data == last.data
               cells    == <<row_data.platform_1, row_data.platform_2, row_data.platform_3>>
           IN  /\ \A k \in 1..3 :
                     CellTruthy(cells[k])
                         <=> \E j \in DOMAIN last.result : last.result[j].column = k
               /\ \A j \in DOMAIN last.result : \A i \in DOMAIN last.result :
                     i < j => last.result[i].column < last.result[j].column
               /\ \A j \in DOMAIN last.result :
                     last.result[j].gop =
                        IF last.result[j].column = 1
                        THEN EntryCarrying(row_data.platform_1, row_data.price, row_data.added,
                                           row_data.source, row_data.identifier)
                        ELSE EntryCarrying(cells[last.result[j].column],
                                           NoneCell, NoneCell, NoneCell, NoneCell)

\* the games with at least one link that is not deleted
ActiveGames == {g \in db.Game : \E l \in db.GameOnPlatform : l.game = g.id /\ ~l.deleted}

\* C23: in every state reached by creating, soft-deleting and restoring
\* links the default manager gives the games with a link that is not
\* deleted, orphaned_only gives the other games, and the two are disjoint
\* and make up all_with_orphaned.
C23_ManagersPartitionGames ==
    /\ get_queryset(db) = ActiveGames
    /\ orphaned_only(db) = db.Game \ ActiveGames
    /\ get_queryset(db) \cap orphaned_only(db) = {}
    /\ get_queryset(db) \cup orphaned_only(db) = all_with_orphaned(db)

\* a game whose only link is soft-deleted is orphaned next to a visible game
C23_Witness ==
    \E g \in orphaned_only(db) : \E h \in get_queryset(db) :
        /\ \E l \in db.GameOnPlatform : l.game = g.id /\ l.deleted
        /\ g.id # h.id

\* C24: every stored link is deleted exactly when it has a time of
\* deletion; soft_delete leaves the link deleted with a time, restore leaves
\* it not deleted without one, and a second soft_delete or restore right
\* after the first leaves the flags as they are.
C24_DeletedIffTimestamp ==
    /\ [](\A l \in db.GameOnPlatform : l.deleted <=> l.deleted_at # None)
    /\ [][\A lid \in 1..MaxLinks :
            /\ SoftDeleteCall(lid)
                  => GopById(db', lid).deleted /\ GopById(db', lid).deleted_at # None
            /\ RestoreCall(lid)
                  => ~GopById(db', lid).deleted /\ GopById(db', lid).deleted_at = None
            /\ (/\ SoftDeleteCall(lid) \/ RestoreCall(lid)
                /\ last.op = last'.op
                /\ last.link = lid)
                  => /\ GopById(db', lid).deleted = GopById(db, lid).deleted
                     /\ (GopById(db', lid).deleted_at = None)
                            = (GopById(db, lid).deleted_at = None)]_vars

\* a link was restored after a soft delete of another link of the game
C24_Witness ==
    /\ last.op = "restore"
    /\ \E l \in db.GameOnPlatform : \E m \in db.GameOnPlatform :
          /\ l.id = last.link /\ ~l.deleted /\ l.deleted_at = None
          /\ m.id # l.id /\ m.deleted /\ m.deleted_at # None

\* C25 (as claimed): after a DELETE on a stored game-platform relationship
\* its link is still stored, deleted, with a time of deletion.
C25_ApiDeleteKeepsLink ==
    [][\A game_id \in 1..MaxGames : \A platform_id \in PlatformNames :
          ApiDeleteCall(game_id, platform_id)
              => \A l \in db.GameOnPlatform :
                    (l.game = game_id /\ l.platform = platform_id)
                        => \E m \in db'.GameOnPlatform :
                              m.id = l.id /\ m.deleted /\ m.deleted_at # None]_vars

\* C30 (as claimed): soft_delete and restore leave every field of the link
\* but deleted and deleted_at, and every other link, as they were.
C30_SoftDeleteChangesFlagsOnly ==
    [][\A lid \in 1..MaxLinks :
          (SoftDeleteCall(lid) \/ RestoreCall(lid))
              => /\ GopById(db', lid) =
                       [GopById(db, lid) EXCEPT !.deleted = GopById(db', lid).deleted,
                                                !.deleted_at = GopById(db', lid).deleted_at]
                 /\ {l \in db'.GameOnPlatform : l.id # lid}
                       = {l \in db.GameOnPlatform : l.id # lid}]_vars

\* C29 (as claimed): a create call with the draft of the create call before
\* it, both without exception, leaves the links of the game as they were
\* after the first call.
C29_SecondImportSameLinks ==
    [][\A game \in Drafts :
          (/\ last.op = "create"
           /\ last.draft = game
           /\ last.raised = None
           /\ CreateCall(game)
           /\ last'.raised = None)
              => {l \in db'.GameOnPlatform : l.game = last.model}
                     = {l \in db.GameOnPlatform : l.game = last.model}]_vars

\* C28 (as claimed): every save of a link ends without exception after at
\* most one save made by the receiver.
C28_SaveChainStops ==
    last.op = "save" => (last.raised = None /\ last.nested <= 1)

\* the stored games, orphaned ones included, whose name is name when case
\* is ignored
GamesNamed(d, name) == {g \in all_with_orphaned(d) : Lower(g.name) = Lower(name)}

\* C26 (as claimed): in every bulk import each submitted name that a stored
\* game has, case ignored, is listed as a duplicate, a name one game had
\* before has one game after, and when every submitted name is one of a
\* stored game the database is left as it was.
C26_BulkImportNeverDuplicates ==
    [][\A view \in BulkViews : \A names \in BulkNames : \A platform_id \in PlatformNames :
          BulkImport(view, names, platform_id)
              => /\ \A k \in DOMAIN names :
                       GamesNamed(db, names[k]) # {}
                           => /\ \E j \in DOMAIN last'.duplicates :
                                     last'.duplicates[j] = names[k]
                              /\ Cardinality(GamesNamed(db', names[k]))
                                     = Cardinality(GamesNamed(db, names[k]))
                 /\ (\A k \in DOMAIN names : GamesNamed(db, names[k]) # {})
                       => db' = db]_vars

====
